---- MODULE Spec2Model ----
(***************************************************************************)
(* datvideo: RFC-1662 style byte-stuffed framing with a CRC-16 trailer.    *)
(* The encoder (EncodeRfc1662Frame) and the streaming decoder (the receive *)
(* loop of DecodeFile) of src/main.cc, joined by a byte channel that may   *)
(* add garbage or flip one bit.                                            *)
(***************************************************************************)
EXTENDS Integers, Naturals, Sequences, FiniteSets, TLC

\* ------------------------------------------------------------------ bounds
\* The decoder's frame limit.  The program uses 1024 * 1024; the model
\* scales it down so that frames at and beyond the limit are explored.
MaxFrame == 4
\* Longest garbage segment of a resynchronization scenario.
MaxGarbage == 1
\* Longest payload of a resynchronization / corrupted-frame scenario.
MaxSmall == 1

\* ------------------------------------------------------------- constants
kRfc1662Delimiter == 126
kRfc1662Escape == 125
kMaxFrameSize == MaxFrame

\* ------------------------------------------------------------------ state
VARIABLES
    scn,            \* the scenario: payloads, garbage, checksum
    pc,             \* "encode", "decode" or "done"
    chunks,         \* payloads still to encode
    enc_frame,      \* the encoder's output buffer (frame in EncodeFile)
    wire,           \* the frames the encoder has written, in order
    input,          \* bytes the decoder has not read yet
    receive_state,  \* "Reset", "InFrame" or "InEscape"
    frame,          \* the decoder's accumulation buffer
    out,            \* the payloads the decoder has written, one per fwrite
    log,            \* the warnings the decoder has printed
    crc_calls,      \* calls of GenerateCrc16 made by the decoder
    flip,           \* the bit the channel inverted: [pos, bit], pos = 0 for none
    in_file,        \* bytes EncodeFile has not read yet
    result          \* what DecodeFile has returned (result in main)

vars == << scn, pc, chunks, enc_frame, wire, input, receive_state, frame,
           out, log, crc_calls, flip, in_file, result >>

encVars == << chunks, enc_frame, wire, in_file >>

\* The byte sequence of the specification's worked example, the same
\* sequence without the escape byte in front of the checksum, and the
\* payload and checksum of the example.
ExampleStream == << 126, 1, 125, 126, 2, 125, 171, 205, 126 >>
ExampleFrame == << 126, 1, 125, 126, 2, 171, 205, 126 >>
ExamplePayload == << 1, 126, 2 >>
ExampleCrc == 43981

\* ------------------------------------------------------- byte arithmetic
RECURSIVE BitXor(_, _)
BitXor(a, b) ==
    IF a = 0 THEN b
    ELSE IF b = 0 THEN a
    ELSE (((a % 2) + (b % 2)) % 2) + (2 * BitXor(a \div 2, b \div 2))

\* Exclusive or of two bytes, tabulated.
XorByte == [a \in 0..255 |-> [b \in 0..255 |-> BitXor(a, b)]]

\* Exclusive or of two 16-bit values.
Xor(a, b) ==
    (XorByte[a \div 256][b \div 256] * 256) + XorByte[a % 256][b % 256]

RECURSIVE Pow2(_)
Pow2(k) == IF k = 0 THEN 1 ELSE 2 * Pow2(k - 1)

\* n steps of the shift register of a reflected CRC-16 (polynomial 0xA001).
RECURSIVE CrcShift(_, _)
CrcShift(crc, n) ==
    IF n = 0 THEN crc
    ELSE CrcShift(IF crc % 2 = 1 THEN BitXor(crc \div 2, 40961) ELSE crc \div 2,
                  n - 1)

\* The register after eight steps, for each value of its low byte.
CrcTable == [b \in 0..255 |-> CrcShift(b, 8)]

\* CRC-16 of the bytes, initial value 0, one byte at a time.
RECURSIVE Crc16From(_, _)
Crc16From(crc, bytes) ==
    IF bytes = << >> THEN crc
    ELSE Crc16From(Xor(crc \div 256, CrcTable[XorByte[crc % 256][Head(bytes)]]),
                   Tail(bytes))

Crc16(bytes) == Crc16From(0, bytes)

\* ---------------------------------------------------------------- encoder
\* uint16_t GenerateCrc16(const uint8_t *buffer, size_t length).  Declared in
\* crc16.h; the definition is not part of the sources at hand.  It is the
\* CRC-16 of the bytes, except in the worked-example scenarios, where it is
\* the checksum the specification assumes there: 0xABCD for the example
\* payload.
GenerateCrc16(bytes) ==
    IF scn.crc = "example" /\ bytes = ExamplePayload THEN ExampleCrc
    ELSE Crc16(bytes)

IsControl(b) == b = kRfc1662Delimiter \/ b = kRfc1662Escape

\* Escaping as RFC 1662 itself defines it: the escaped byte is XORed with 0x20.
InsertXorEscapedByte(b, buf) ==
    IF IsControl(b)
    THEN Append(Append(buf, kRfc1662Escape), XorByte[b][32])
    ELSE Append(buf, b)

\* Escaping that forgets the delimiter.
InsertEscapeOnlyEscaped(b, buf) ==
    IF b = kRfc1662Escape
    THEN Append(Append(buf, kRfc1662Escape), b)
    ELSE Append(buf, b)

\* void InsertRfc1662EscapedByte(uint8_t byte, std::vector<uint8_t>* frame)
InsertRfc1662EscapedByte(b, buf) ==
    IF IsControl(b)
    THEN Append(Append(buf, kRfc1662Escape), b)
    ELSE Append(buf, b)

RECURSIVE InsertAll(_, _)
InsertAll(chunk, buf) ==
    IF chunk = << >> THEN buf
    ELSE InsertAll(Tail(chunk), InsertRfc1662EscapedByte(Head(chunk), buf))

\* The encoder without the closing delimiter, as when consecutive frames
\* share one flag.
EncodeWithoutClosingDelimiter(chunk, buf) ==
    LET cleared == SubSeq(buf, 1, 0)
        opened == Append(cleared, kRfc1662Delimiter)
        body == InsertAll(chunk, opened)
        crc == GenerateCrc16(chunk)
        hi == InsertRfc1662EscapedByte(crc \div 256, body)
    IN  InsertRfc1662EscapedByte(crc % 256, hi)

\* The encoder without the frame->clear() of its first line.
EncodeWithoutClear(chunk, buf) ==
    LET opened == Append(buf, kRfc1662Delimiter)
        body == InsertAll(chunk, opened)
        crc == GenerateCrc16(chunk)
        hi == InsertRfc1662EscapedByte(crc \div 256, body)
        lo == InsertRfc1662EscapedByte(crc % 256, hi)
    IN  Append(lo, kRfc1662Delimiter)

\* void EncodeRfc1662Frame(chunk, frame): buf is the output buffer, whose
\* previous contents are cleared first.
EncodeRfc1662Frame(chunk, buf) ==
    LET cleared == SubSeq(buf, 1, 0)
        opened == Append(cleared, kRfc1662Delimiter)
        body == InsertAll(chunk, opened)
        crc == GenerateCrc16(chunk)
        hi == InsertRfc1662EscapedByte(crc \div 256, body)
        lo == InsertRfc1662EscapedByte(crc % 256, hi)
    IN  Append(lo, kRfc1662Delimiter)

\* --------------------------------------------------------------- channel
SeqsUpTo(S, n) == UNION {[1..k -> S] : k \in 0..n}

FlipBit(byte, k) ==
    IF (byte \div Pow2(k)) % 2 = 1 THEN byte - Pow2(k) ELSE byte + Pow2(k)

\* The bytes of s with bit `bit` of the byte at position pos inverted
\* (pos = 0: s unchanged).
FlipAt(s, pos, bit) ==
    [i \in 1..Len(s) |-> IF i = pos THEN FlipBit(s[i], bit) ELSE s[i]]

RECURSIVE Concat(_)
Concat(ss) == IF ss = << >> THEN << >> ELSE Head(ss) \o Concat(Tail(ss))

\* What the decoder reads: the first garbage segment, the first encoded
\* frame (with at most one bit inverted), the second garbage segment, and
\* the remaining encoded frames.
Channel(s, frames, f) ==
    IF frames = << >> THEN s.g1 \o s.g2
    ELSE s.g1 \o FlipAt(frames[1], f.pos, f.bit) \o s.g2 \o Concat(Tail(frames))

NoFlip == [pos |-> 0, bit |-> 0]

\* The bit flips the channel may apply to the first frame: none, or in a
\* bit-flip scenario any one bit strictly between the two delimiters.
Flips(s, frames) ==
    IF s.kind = "flip"
    THEN [pos : 2..(Len(frames[1]) - 1), bit : 0..7]
    ELSE {NoFlip}

\* ------------------------------------------------------------- scenarios
PayloadBytes == {1, kRfc1662Escape, kRfc1662Delimiter}
RawBytes == {1, kRfc1662Escape, kRfc1662Delimiter}
FlipBytes == {1, kRfc1662Delimiter, 127}

Payloads == SeqsUpTo(PayloadBytes, kMaxFrameSize + 1)
SmallPayloads == SeqsUpTo({1, kRfc1662Delimiter}, MaxSmall)
SecondPayloads == {<< 1 >>, << kRfc1662Escape >>}
Garbage == SeqsUpTo(RawBytes, MaxGarbage)
RawStreams == SeqsUpTo(RawBytes, kMaxFrameSize + 3)

\* The two checksum bytes of a payload, high byte first.
CrcBytes(p) == << Crc16(p) \div 256, Crc16(p) % 256 >>

\* Payloads for the bit-flip scenarios: short payloads over bytes one bit
\* away from the control bytes, and payloads that carry a checksummed
\* prefix followed by such a byte.
FlipPayloads ==
    SeqsUpTo(FlipBytes, kMaxFrameSize - 1)
    \cup {p \o CrcBytes(p) \o << t >> : p \in SmallPayloads, t \in {124, 127}}

\* TRUE iff the body of a frame holds no unescaped delimiter and does not
\* end inside an escape sequence.
RECURSIVE Delimited(_, _)
Delimited(body, escaped) ==
    IF body = << >> THEN ~escaped
    ELSE IF escaped THEN Delimited(Tail(body), FALSE)
    ELSE IF Head(body) = kRfc1662Delimiter THEN FALSE
    ELSE Delimited(Tail(body), Head(body) = kRfc1662Escape)

\* Delimiter-bounded byte sequences as a damaged frame would arrive.
CorruptFrames ==
    {<< kRfc1662Delimiter >> \o body \o << kRfc1662Delimiter >> :
        body \in {b \in SeqsUpTo({1, kRfc1662Escape}, kMaxFrameSize + 2) :
                     Delimited(b, FALSE)}}

\* Contents of the encoder's output buffer before a call.
PriorFrames == {<< >>, << kRfc1662Delimiter, 1 >>}

Scn(kind, crc, payloads, prior, g1, g2) ==
    [kind |-> kind, crc |-> crc, payloads |-> payloads, prior |-> prior,
     g1 |-> g1, g2 |-> g2, data |-> << >>, chunk_size |-> 0]

\* A run of EncodeFile over the bytes of a file with a chunk size.
FileScn(data, chunk_size) ==
    [kind |-> "file", crc |-> "crc16", payloads |-> << >>, prior |-> << >>,
     g1 |-> << >>, g2 |-> << >>, data |-> data, chunk_size |-> chunk_size]

\* File contents and chunk sizes (-s; any size_t, 188 by default).
FileData == SeqsUpTo({1, kRfc1662Delimiter}, kMaxFrameSize + 1)
ChunkSizes == 1..(kMaxFrameSize + 1)

Scenarios ==
    {Scn("clean", "crc16", << p >>, f, << >>, << >>) :
        p \in Payloads, f \in PriorFrames}
    \cup {Scn("resync", "crc16", << a, b >>, << >>, g1, g2) :
        a \in SmallPayloads, b \in SecondPayloads, g1 \in Garbage, g2 \in Garbage}
    \cup {Scn("corrupt", "crc16", << q >>, << >>, x, << >>) :
        q \in SmallPayloads, x \in CorruptFrames}
    \cup {Scn("flip", "crc16", << p >>, << >>, << >>, << >>) : p \in FlipPayloads}
    \cup {Scn("raw", "crc16", << >>, << >>, g, << >>) : g \in RawStreams}
    \cup {FileScn(d, n) : d \in FileData, n \in ChunkSizes}
    \cup {Scn("clean", "example", << ExamplePayload >>, << >>, << >>, << >>)}
    \cup {Scn("raw", "example", << >>, << >>, g, << >>) :
        g \in {ExampleStream, ExampleFrame}}

Init ==
    /\ scn \in Scenarios
    /\ pc = "encode"
    /\ chunks = scn.payloads
    /\ enc_frame = scn.prior
    /\ wire = << >>
    /\ input = << >>
    /\ receive_state = "Reset"
    /\ frame = << >>
    /\ out = << >>
    /\ log = << >>
    /\ crc_calls = 0
    /\ flip = NoFlip
    /\ in_file = scn.data
    /\ result = FALSE

\* ---------------------------------------------------------------- encoder
\* One call of EncodeRfc1662Frame followed by the write of the frame.
EncodeFrame ==
    /\ pc = "encode"
    /\ chunks # << >>
    /\ enc_frame' = EncodeRfc1662Frame(Head(chunks), enc_frame)
    /\ wire' = Append(wire, enc_frame')
    /\ chunks' = Tail(chunks)
    /\ UNCHANGED << scn, pc, in_file, input, receive_state, frame, out, log, crc_calls, flip, result >>

\* size_t of the bytes one fread of EncodeFile returns: a full chunk, or
\* what is left of the file.
BytesRead(file, chunk_size) ==
    IF Len(file) < chunk_size THEN Len(file) ELSE chunk_size

\* One iteration of the loop of EncodeFile: read a chunk, encode it, write
\* the frame.
EncodeFile ==
    /\ pc = "encode"
    /\ BytesRead(in_file, scn.chunk_size) > 0
    /\ LET bytes_read == BytesRead(in_file, scn.chunk_size)
           buf == SubSeq(in_file, 1, bytes_read)
       IN  /\ enc_frame' = EncodeRfc1662Frame(buf, enc_frame)
           /\ in_file' = SubSeq(in_file, bytes_read + 1, Len(in_file))
    /\ wire' = Append(wire, enc_frame')
    /\ UNCHANGED << scn, pc, chunks, input, receive_state, frame, out, log,
                    crc_calls, flip, result >>

\* The written frames pass through the channel and become the decoder's input.
Transmit ==
    /\ pc = "encode"
    /\ chunks = << >>
    /\ BytesRead(in_file, scn.chunk_size) = 0
    /\ \E f \in Flips(scn, wire) :
        /\ flip' = f
        /\ input' = Channel(scn, wire, f)
    /\ pc' = "decode"
    /\ UNCHANGED << scn, encVars, receive_state, frame, out, log, crc_calls, result >>

\* ---------------------------------------------------------------- decoder
\* A threshold of more than two bytes.
HasCrcStrict(f) == Len(f) > 2

\* frame.size() >= sizeof(uint16_t)
HasCrc(f) == Len(f) >= 2

\* The received checksum read low byte first.
ReceivedCrcLittleEndian(f) == (f[Len(f)] * 256) + f[Len(f) - 1]

\* The received checksum: the last two bytes, high byte first.
ReceivedCrc(f) == (f[Len(f) - 1] * 256) + f[Len(f)]

\* The bytes the checksum covers, which are the bytes written out.
FramePayload(f) == SubSeq(f, 1, Len(f) - 2)

\* A decoder that accepts every checksum.
CrcUnchecked(f) == TRUE

\* A comparison of the low checksum byte only.
CrcLowByteOnly(f) ==
    ReceivedCrc(f) % 256 = GenerateCrc16(FramePayload(f)) % 256

\* crc == computed_crc
CrcMatches(f) == ReceivedCrc(f) = GenerateCrc16(FramePayload(f))

\* The limit applied one byte early.
TooLongAtLimit(f) == Len(f) >= kMaxFrameSize

\* frame.size() > kMaxFrameSize
TooLong(f) == Len(f) > kMaxFrameSize

\* A byte is read: the loop condition of DecodeFile holds.
Reading == pc = "decode" /\ input # << >>
byte == Head(input)

\* A Reset state that also takes the escape byte as the start of a frame.
ResetByteOpensOnEscape ==
    /\ Reading
    /\ receive_state = "Reset"
    /\ receive_state' = IF IsControl(byte) THEN "InFrame" ELSE "Reset"
    /\ input' = Tail(input)
    /\ UNCHANGED << scn, pc, encVars, frame, out, log, crc_calls, flip, result >>

\* receive_state == Reset
ResetByte ==
    /\ Reading
    /\ receive_state = "Reset"
    /\ receive_state' = IF byte = kRfc1662Delimiter THEN "InFrame" ELSE "Reset"
    /\ input' = Tail(input)
    /\ UNCHANGED << scn, pc, encVars, frame, out, log, crc_calls, flip, result >>

\* receive_state == InFrame, byte == kRfc1662Delimiter
InFrameDelimiter ==
    /\ Reading
    /\ receive_state = "InFrame"
    /\ byte = kRfc1662Delimiter
    /\ IF HasCrc(frame)
       THEN /\ crc_calls' = crc_calls + 1
            /\ IF CrcMatches(frame)
               THEN /\ out' = Append(out, FramePayload(frame))
                    /\ log' = log
               ELSE /\ out' = out
                    /\ log' = Append(log, "CRC mismatch received")
       ELSE /\ crc_calls' = crc_calls
            /\ out' = out
            /\ log' = Append(log, "Short frame received")
    /\ frame' = << >>
    /\ receive_state' = "Reset"
    /\ input' = Tail(input)
    /\ UNCHANGED << scn, pc, encVars, flip, result >>

\* An escape byte that is also stored.
InFrameEscapeStored ==
    /\ Reading
    /\ receive_state = "InFrame"
    /\ byte = kRfc1662Escape
    /\ frame' = Append(frame, byte)
    /\ receive_state' = "InEscape"
    /\ input' = Tail(input)
    /\ UNCHANGED << scn, pc, encVars, out, log, crc_calls, flip, result >>

\* receive_state == InFrame, byte == kRfc1662Escape
InFrameEscape ==
    /\ Reading
    /\ receive_state = "InFrame"
    /\ byte = kRfc1662Escape
    /\ receive_state' = "InEscape"
    /\ input' = Tail(input)
    /\ UNCHANGED << scn, pc, encVars, frame, out, log, crc_calls, flip, result >>

\* A long-frame discard without receive_state = ReceiveState::Reset.
InFrameLongStaysInFrame ==
    /\ Reading
    /\ receive_state = "InFrame"
    /\ ~IsControl(byte)
    /\ TooLong(frame)
    /\ log' = Append(log, "Long frame received")
    /\ frame' = << >>
    /\ input' = Tail(input)
    /\ UNCHANGED << scn, pc, encVars, receive_state, out, crc_calls, flip, result >>

\* A long-frame discard without frame.clear().
InFrameLongKeepsBuffer ==
    /\ Reading
    /\ receive_state = "InFrame"
    /\ ~IsControl(byte)
    /\ TooLong(frame)
    /\ log' = Append(log, "Long frame received")
    /\ receive_state' = "Reset"
    /\ input' = Tail(input)
    /\ UNCHANGED << scn, pc, encVars, frame, out, crc_calls, flip, result >>

\* receive_state == InFrame, any other byte, frame.size() > kMaxFrameSize
InFrameLong ==
    /\ Reading
    /\ receive_state = "InFrame"
    /\ ~IsControl(byte)
    /\ TooLong(frame)
    /\ log' = Append(log, "Long frame received")
    /\ frame' = << >>
    /\ receive_state' = "Reset"
    /\ input' = Tail(input)
    /\ UNCHANGED << scn, pc, encVars, out, crc_calls, flip, result >>

\* receive_state == InFrame, any other byte
InFrameAppend ==
    /\ Reading
    /\ receive_state = "InFrame"
    /\ ~IsControl(byte)
    /\ ~TooLong(frame)
    /\ frame' = Append(frame, byte)
    /\ input' = Tail(input)
    /\ UNCHANGED << scn, pc, encVars, receive_state, out, log, crc_calls, flip, result >>

\* receive_state == InEscape, byte is the delimiter or the escape
InEscapeAppend ==
    /\ Reading
    /\ receive_state = "InEscape"
    /\ IsControl(byte)
    /\ frame' = Append(frame, byte)
    /\ receive_state' = "InFrame"
    /\ input' = Tail(input)
    /\ UNCHANGED << scn, pc, encVars, out, log, crc_calls, flip, result >>

\* An invalid escape that keeps the offending byte as the start of a frame.
InEscapeInvalidStoresByte ==
    /\ Reading
    /\ receive_state = "InEscape"
    /\ ~IsControl(byte)
    /\ log' = Append(log, "Invalid escape sequence received")
    /\ frame' = << byte >>
    /\ receive_state' = "Reset"
    /\ input' = Tail(input)
    /\ UNCHANGED << scn, pc, encVars, out, crc_calls, flip, result >>

\* receive_state == InEscape, any other byte
InEscapeInvalid ==
    /\ Reading
    /\ receive_state = "InEscape"
    /\ ~IsControl(byte)
    /\ log' = Append(log, "Invalid escape sequence received")
    /\ frame' = << >>
    /\ receive_state' = "Reset"
    /\ input' = Tail(input)
    /\ UNCHANGED << scn, pc, encVars, out, crc_calls, flip, result >>

\* An end of input that writes out what the buffer holds.
DecodeDoneFlushes ==
    /\ pc = "decode"
    /\ input = << >>
    /\ pc' = "done"
    /\ result' = TRUE
    /\ out' = IF frame = << >> THEN out ELSE Append(out, frame)
    /\ UNCHANGED << scn, encVars, input, receive_state, frame, log, crc_calls, flip >>

\* fread returns 0: the loop ends and DecodeFile returns true.
DecodeDone ==
    /\ pc = "decode"
    /\ input = << >>
    /\ pc' = "done"
    /\ result' = TRUE
    /\ UNCHANGED << scn, encVars, input, receive_state, frame, out, log, crc_calls, flip >>

Next ==
    \/ EncodeFrame
    \/ EncodeFile
    \/ Transmit
    \/ ResetByte
    \/ InFrameDelimiter
    \/ InFrameEscape
    \/ InFrameLong
    \/ InFrameAppend
    \/ InEscapeAppend
    \/ InEscapeInvalid
    \/ DecodeDone

Spec == Init /\ [][Next]_vars

TypeOK ==
    /\ pc \in {"encode", "decode", "done"}
    /\ receive_state \in {"Reset", "InFrame", "InEscape"}

\* ----------------------------------------------------------------- claims
Done == pc = "done"

\* The chunks EncodeFile cuts a file into.
RECURSIVE Chunked(_, _)
Chunked(d, n) ==
    IF d = << >> THEN << >>
    ELSE IF Len(d) <= n THEN << d >>
    ELSE << SubSeq(d, 1, n) >> \o Chunked(SubSeq(d, n + 1, Len(d)), n)

\* The payloads that were encoded, in order.
Sent == IF scn.kind = "file" THEN Chunked(scn.data, scn.chunk_size) ELSE scn.payloads

\* The i-th payload that was encoded.
Payload(i) == Sent[i]

\* TRUE iff the elements of a occur in b in the same order.
RECURSIVE IsSubsequence(_, _)
IsSubsequence(a, b) ==
    IF a = << >> THEN TRUE
    ELSE IF b = << >> THEN FALSE
    ELSE IF Head(a) = Head(b) THEN IsSubsequence(Tail(a), Tail(b))
    ELSE IsSubsequence(a, Tail(b))

HasLog(msg) == \E i \in 1..Len(log) : log[i] = msg

\* C1 as stated: every payload of length 0 up to and including the maximum
\* frame size, encoded and fed to a fresh decoder, comes out as exactly one
\* valid frame equal to the payload, with no discard.
C1_RoundTripUpToMax ==
    (Done /\ scn.kind = "clean" /\ Len(Payload(1)) <= kMaxFrameSize)
        => (out = << Payload(1) >> /\ log = << >>)

\* C1 amended: every payload shorter than the maximum frame size, encoded
\* and fed to a fresh decoder, comes out as exactly one valid frame equal to
\* the payload, with no discard.
C1_RoundTrip ==
    (Done /\ scn.kind = "clean" /\ Len(Payload(1)) < kMaxFrameSize)
        => (out = << Payload(1) >> /\ log = << >>)

C1_Witness ==
    /\ Done
    /\ scn.kind = "clean"
    /\ Len(Payload(1)) = kMaxFrameSize - 1
    /\ \A i \in 1..Len(Payload(1)) : Payload(1)[i] = kRfc1662Delimiter
    /\ out = << Payload(1) >>

\* C2: after garbage, frame A, garbage, frame B, the decoder has emitted A
\* and then B, neither lost, whatever bytes the garbage holds.
C2_Resynchronization ==
    (Done /\ scn.kind = "resync")
        => IsSubsequence(<< Payload(1), Payload(2) >>, out)

\* C3: when the decoder reported a discard while consuming a corrupted,
\* delimiter-closed frame, the well-formed frame that follows is emitted.
C3_DiscardKeepsNextFrame ==
    (Done /\ scn.kind = "corrupt" /\ log # << >>)
        => \E i \in 1..Len(out) : out[i] = Payload(1)

\* C5: in a stream that opens a frame and holds no further delimiter, the
\* accumulation buffer never grows beyond the maximum frame size.
NoDelimiter(s) == \A i \in 1..Len(s) : s[i] # kRfc1662Delimiter
C5_BoundedBuffer ==
    (/\ scn.kind = "raw"
     /\ scn.g1 # << >>
     /\ Head(scn.g1) = kRfc1662Delimiter
     /\ NoDelimiter(Tail(scn.g1)))
        => Len(frame) <= kMaxFrameSize

\* The byte the channel inverted a bit of, before and after.
FlippedFrom == wire[1][flip.pos]
FlippedTo == FlipBit(FlippedFrom, flip.bit)
FramingKept == ~IsControl(FlippedFrom) /\ ~IsControl(FlippedTo)

\* C4 as stated: with any one bit inverted strictly between the delimiters
\* of an encoded frame, the decoder never emits a payload other than the
\* encoded one.
C4_FlipNeverOtherPayload ==
    (Done /\ scn.kind = "flip")
        => \A i \in 1..Len(out) : out[i] = Payload(1)

\* C4 amended: for a payload shorter than the maximum frame size, with one
\* bit inverted strictly between the delimiters such that the byte is
\* neither the delimiter nor the escape byte before or after the flip, the
\* decoder never emits a payload other than the encoded one.
C4_FlipKeepingFraming ==
    (Done /\ scn.kind = "flip" /\ Len(Payload(1)) < kMaxFrameSize /\ FramingKept)
        => \A i \in 1..Len(out) : out[i] = Payload(1)

C4_Witness ==
    /\ Done
    /\ scn.kind = "flip"
    /\ Len(Payload(1)) = kMaxFrameSize - 1
    /\ FramingKept
    /\ flip.pos = 2
    /\ log = << "CRC mismatch received" >>
    /\ out = << >>

RawExample(stream) ==
    Done /\ scn.crc = "example" /\ scn.kind = "raw" /\ scn.g1 = stream

\* C6 as stated: with a checksum that maps [0x01, 0x7E, 0x02] to 0xABCD, the
\* bytes 7E 01 7D 7E 02 7D AB CD 7E decode to that payload, with no discard.
C6_ExampleStream ==
    RawExample(ExampleStream) => (out = << ExamplePayload >> /\ log = << >>)

\* C6 amended: with such a checksum the payload encodes to, and decodes
\* from, 7E 01 7D 7E 02 AB CD 7E, with no discard; the sequence with 0x7D in
\* front of 0xAB is an invalid escape, reported as such, and yields no frame.
C6_ExampleFrame ==
    /\ RawExample(ExampleFrame) => (out = << ExamplePayload >> /\ log = << >>)
    /\ RawExample(ExampleStream)
        => (out = << >> /\ log = << "Invalid escape sequence received" >>)
    /\ (scn.crc = "example" /\ scn.kind = "clean" /\ wire # << >>)
        => wire[1] = ExampleFrame

C6_Witness ==
    RawExample(ExampleFrame) /\ out = << ExamplePayload >> /\ crc_calls = 1

\* Each byte of p behind one escape byte.
EscapedPairs(p) ==
    [i \in 1..(2 * Len(p)) |-> IF i % 2 = 1 THEN kRfc1662Escape ELSE p[i \div 2]]

OnlyControl(p) == \A i \in 1..Len(p) : IsControl(p[i])

EscapedRegionOk ==
    SubSeq(wire[1], 2, 1 + (2 * Len(Payload(1)))) = EscapedPairs(Payload(1))

\* C7 as stated: a payload of delimiter and escape bytes only, of any
\* length, is encoded as the pairs (0x7D, b) and decodes to itself.
C7_EscapingAnyLength ==
    (Done /\ scn.kind = "clean" /\ OnlyControl(Payload(1)))
        => (EscapedRegionOk /\ out = << Payload(1) >> /\ log = << >>)

\* C7 amended: a payload of delimiter and escape bytes only is encoded as the
\* pairs (0x7D, b), whatever its length; when it is shorter than the maximum
\* frame size it decodes to itself.
C7_Escaping ==
    (Done /\ scn.kind = "clean" /\ OnlyControl(Payload(1)))
        => /\ EscapedRegionOk
           /\ Len(Payload(1)) < kMaxFrameSize
                => (out = << Payload(1) >> /\ log = << >>)

C7_Witness ==
    /\ Done
    /\ scn.kind = "clean"
    /\ Payload(1) = [i \in 1..(kMaxFrameSize - 1) |->
                        IF i = 1 THEN kRfc1662Escape ELSE kRfc1662Delimiter]
    /\ out = << Payload(1) >>

\* The encoded frame is bounded by delimiters and holds no unescaped one.
FramedOk(e) ==
    /\ Len(e) >= 2
    /\ e[1] = kRfc1662Delimiter
    /\ e[Len(e)] = kRfc1662Delimiter
    /\ Delimited(SubSeq(e, 2, Len(e) - 1), FALSE)

\* The decoder is inside the frame from the second byte on, and in InFrame
\* when the last byte, the closing delimiter, is the next one read.
ClosesAtLastByte(e) ==
    /\ (pc = "decode" /\ Len(input) < Len(e) /\ input # << >>)
        => receive_state # "Reset"
    /\ (pc = "decode" /\ Len(input) = 1) => receive_state = "InFrame"
    /\ Done => receive_state = "Reset"

\* C8 as stated: every encoded frame starts and ends with the delimiter, has
\* no unescaped delimiter in between, and the decoder closes it at its last
\* byte and at no earlier byte.
C8_FramingAnyLength ==
    (scn.kind = "clean" /\ wire # << >>)
        => (FramedOk(wire[1]) /\ ClosesAtLastByte(wire[1]))

\* C8 amended: every encoded frame starts and ends with the delimiter and
\* has no unescaped delimiter in between; when the payload is shorter than
\* the maximum frame size the decoder closes the frame at its last byte and
\* at no earlier byte.
C8_Framing ==
    (scn.kind = "clean" /\ wire # << >>)
        => /\ FramedOk(wire[1])
           /\ Len(Payload(1)) < kMaxFrameSize => ClosesAtLastByte(wire[1])

C8_Witness ==
    /\ Done
    /\ scn.kind = "clean"
    /\ Len(Payload(1)) = kMaxFrameSize - 1
    /\ \E i \in 1..Len(Payload(1)) : Payload(1)[i] = kRfc1662Delimiter
    /\ receive_state = "Reset"
    /\ Len(out) = 1

\* The number of delimiter- or escape-valued bytes among the payload and
\* its two checksum bytes.
EscapeCount(p) ==
    Cardinality({i \in 1..Len(p) : IsControl(p[i])})
    + (IF IsControl(GenerateCrc16(p) \div 256) THEN 1 ELSE 0)
    + (IF IsControl(GenerateCrc16(p) % 256) THEN 1 ELSE 0)

\* C9: each encoded frame is as long as its payload plus 2 checksum bytes
\* plus one escape byte per delimiter- or escape-valued byte of payload and
\* checksum plus 2 delimiters, whatever the output buffer held before.
C9_EncodedLength ==
    pc = "encode" => \A i \in 1..Len(wire) :
        Len(wire[i]) = Len(Payload(i)) + 2 + EscapeCount(Payload(i)) + 2

C9_Witness ==
    /\ pc = "encode"
    /\ scn.kind = "resync"
    /\ Len(wire) = 2
    /\ Payload(1) # << >>
    /\ EscapeCount(Payload(2)) > 0
    /\ enc_frame = wire[2]

\* C10: a delimiter that closes a buffer of 0 or 1 bytes gives a short-frame
\* discard, no payload and no checksum computation; one that closes the two
\* checksum bytes of the empty payload gives a valid empty payload; both
\* clear the buffer and return to Reset.
C10_ShortFrameThreshold ==
    [][(Reading /\ receive_state = "InFrame" /\ byte = kRfc1662Delimiter) =>
        /\ Len(frame) < 2 =>
            /\ log' = Append(log, "Short frame received")
            /\ out' = out
            /\ crc_calls' = crc_calls
        /\ (Len(frame) = 2 /\ ReceivedCrc(frame) = GenerateCrc16(<< >>)) =>
            /\ out' = Append(out, << >>)
            /\ log' = log
        /\ frame' = << >>
        /\ receive_state' = "Reset"]_vars

C10_Witness ==
    /\ Done
    /\ HasLog("Short frame received")
    /\ \E i \in 1..Len(out) : out[i] = << >>
    /\ frame = << >>
    /\ receive_state = "Reset"

\* C11: every payload written is the buffer without its last two bytes, at
\* a closing delimiter, of a buffer of at least 2 bytes whose last two
\* bytes are the big-endian checksum of that payload; a step that reports
\* a discard writes nothing.
C11_IntegrityGate ==
    [][/\ out' # out =>
            /\ Reading
            /\ receive_state = "InFrame"
            /\ byte = kRfc1662Delimiter
            /\ Len(frame) >= 2
            /\ (frame[Len(frame) - 1] * 256) + frame[Len(frame)]
                  = GenerateCrc16(SubSeq(frame, 1, Len(frame) - 2))
            /\ out' = Append(out, SubSeq(frame, 1, Len(frame) - 2))
            /\ log' = log
       /\ log' # log => out' = out]_vars

C11_Witness ==
    /\ Done
    /\ HasLog("CRC mismatch received")
    /\ Len(out) = 1
    /\ out[1] # << >>

\* C12: inside a frame with a buffer longer than the maximum, the next
\* byte read, whatever it is, gives a frame-too-long discard, an empty
\* buffer and the state Reset.
C12_OversizedDiscardedAtNextByte ==
    [][(/\ Reading
        /\ receive_state \in {"InFrame", "InEscape"}
        /\ Len(frame) > kMaxFrameSize) =>
            /\ log' = Append(log, "Long frame received")
            /\ frame' = << >>
            /\ receive_state' = "Reset"]_vars

\* C13: in InEscape a delimiter or escape byte is appended as it is and the
\* state returns to InFrame; any other byte is consumed without being
\* stored, reports an invalid escape, writes nothing, empties the whole
\* buffer and returns to Reset.
C13_InvalidEscape ==
    [][(Reading /\ receive_state = "InEscape") =>
        /\ input' = Tail(input)
        /\ out' = out
        /\ IF byte = kRfc1662Delimiter \/ byte = kRfc1662Escape
           THEN /\ frame' = Append(frame, byte)
                /\ receive_state' = "InFrame"
                /\ log' = log
           ELSE /\ frame' = << >>
                /\ receive_state' = "Reset"
                /\ log' = Append(log, "Invalid escape sequence received")]_vars

C13_Witness ==
    /\ Done
    /\ scn.kind = "raw"
    /\ scn.g1 = << kRfc1662Delimiter, 1, kRfc1662Escape, 1 >>
    /\ log = << "Invalid escape sequence received" >>
    /\ frame = << >>
    /\ receive_state = "Reset"
    /\ out = << >>

\* C14: every step that reports a discard or writes a payload leaves the
\* decoder in Reset with an empty buffer and the loop running; every pass
\* of the loop consumes a byte, the loop is never stuck, and it ends only at
\* the end of the input, with DecodeFile returning true.
C14_DiscardPostState ==
    /\ [](pc = "decode" => ENABLED Next)
    /\ [](Done => (input = << >> /\ result = TRUE))
    /\ [][/\ (log' # log \/ out' # out) =>
              /\ frame' = << >>
              /\ receive_state' = "Reset"
              /\ pc' = "decode"
              /\ input' = Tail(input)
          /\ (pc = "decode" /\ pc' = "decode") => Len(input') < Len(input)
          /\ (pc = "decode" /\ pc' # "decode") => (input = << >> /\ result')]_vars

C14_Witness ==
    /\ Done
    /\ result = TRUE
    /\ HasLog("Short frame received")
    /\ out # << >>

\* C15: a delimiter or escape byte read in InFrame is never appended to the
\* buffer; the buffer grows only by the byte just read, at its end, and a
\* delimiter- or escape-valued byte is appended only in InEscape.
C15_BufferContent ==
    [][/\ (/\ Reading
           /\ receive_state = "InFrame"
           /\ (byte = kRfc1662Delimiter \/ byte = kRfc1662Escape))
              => (frame' = frame \/ frame' = << >>)
       /\ frame' # frame => (frame' = << >> \/ frame' = Append(frame, byte))
       /\ (/\ Len(frame') > Len(frame)
           /\ (frame'[Len(frame')] = kRfc1662Delimiter
               \/ frame'[Len(frame')] = kRfc1662Escape))
              => receive_state = "InEscape"]_vars

C15_Witness ==
    /\ pc = "decode"
    /\ receive_state = "InFrame"
    /\ \E i \in 1..Len(frame) : frame[i] = kRfc1662Delimiter
    /\ \E i \in 1..Len(frame) : frame[i] = kRfc1662Escape
    /\ \E i \in 1..Len(frame) : frame[i] = 1

\* C16: whenever the decoder is in Reset the accumulation buffer is empty,
\* so a frame opened by a delimiter starts with an empty buffer.
C16_CleanStart ==
    receive_state = "Reset" => frame = << >>

C16_Witness ==
    /\ pc = "decode"
    /\ receive_state = "InFrame"
    /\ frame = << >>
    /\ HasLog("Long frame received")

\* C17: while and after reading a stream that holds no delimiter, the
\* decoder is in Reset with an empty buffer, has written nothing and has
\* reported nothing.
C17_IdleIgnoresGarbage ==
    (scn.kind = "raw" /\ NoDelimiter(scn.g1) /\ pc # "encode")
        => /\ receive_state = "Reset"
           /\ frame = << >>
           /\ out = << >>
           /\ log = << >>

C17_Witness ==
    /\ Done
    /\ scn.kind = "raw"
    /\ NoDelimiter(scn.g1)
    /\ Len(scn.g1) = kMaxFrameSize + 3
    /\ \E i \in 1..Len(scn.g1) : scn.g1[i] = kRfc1662Escape
    /\ receive_state = "Reset"
    /\ out = << >>
    /\ log = << >>

\* The encoded frames reach the decoder back to back and unchanged.
BackToBack ==
    scn.kind \in {"clean", "resync", "file"} /\ scn.g1 = << >> /\ scn.g2 = << >>

\* C18 as stated: the frames of any payloads, fed back to back, come out as
\* exactly those payloads, in order, with no discard.
C18_BackToBackAnyLength ==
    (Done /\ BackToBack) => (out = Sent /\ log = << >>)

\* C18 amended: the frames of payloads that are each shorter than the
\* maximum frame size, fed back to back, come out as exactly those
\* payloads, in order, with no discard.
C18_BackToBack ==
    (Done /\ BackToBack /\ \A i \in 1..Len(Sent) : Len(Sent[i]) < kMaxFrameSize)
        => (out = Sent /\ log = << >>)

C18_Witness ==
    /\ Done
    /\ scn.kind = "file"
    /\ scn.chunk_size = kMaxFrameSize - 1
    /\ Len(out) = 2
    /\ out = Sent
    /\ log = << >>

\* C19: for every file and every chunk size of at least 1, the decoded
\* output of the encoded file is the file.
C19_FileRoundTrip ==
    (Done /\ scn.kind = "file" /\ scn.chunk_size >= 1)
        => Concat(out) = scn.data

\* C20: when the input ends inside a frame, the loop ends with nothing
\* written and nothing reported for the bytes in the buffer, and DecodeFile
\* returns true.
C20_TruncatedStream ==
    [][(/\ pc = "decode"
        /\ input = << >>
        /\ receive_state \in {"InFrame", "InEscape"}) =>
            /\ pc' = "done"
            /\ out' = out
            /\ log' = log
            /\ result' = TRUE]_vars

C20_Witness ==
    /\ Done
    /\ receive_state = "InEscape"
    /\ frame # << >>
    /\ out = << >>
    /\ log = << >>
    /\ result = TRUE

====
